---- MODULE Spec2Model ----
(***************************************************************************)
(* Layout reconstruction engine of layout-document-ai (src/src/index.ts):  *)
(* processJSON and the four stages it runs per page, processTokens,        *)
(* makeLinesWithIntersection, computeSlots and renderLinesWithSlots.       *)
(*                                                                         *)
(* Numbers.  A normalized vertex coordinate is k/PageSize, stored as k; a  *)
(* page dimension is 0 or PageSize, so the product processTokens computes  *)
(* is the integer k (or 0).  A median of an even number of widths is a     *)
(* half-integer, so globalSlot and lineSlots are kept in HALF pixels       *)
(* (twice the JavaScript value).  The JavaScript values Infinity,          *)
(* -Infinity and NaN are kept as such (PInf, NInf, NaN): the code seeds    *)
(* left, right and rowHeight with infinities and divides by globalSlot,    *)
(* which can be 0.  On the coordinates used here every quotient the code   *)
(* rounds or floors is either exact or away from the rounding boundary, so *)
(* exact rational arithmetic agrees with IEEE doubles.                     *)
(*                                                                         *)
(* Text.  A string is a sequence of one-character strings.                 *)
(***************************************************************************)
EXTENDS Integers, Sequences, FiniteSets, TLC

\* ------------------------------------------------------------ bounds
\* Tokens per page in the families of documents that vary geometry.
MaxTokens == 3
\* Vertical coordinates of the family that varies heights: 0..MaxY.
MaxY == 3
\* Horizontal coordinates of the family that varies widths: 0..MaxX.
MaxX == 2
\* Pages per document in the family that varies the document's shape.
MaxPages == 2
\* Width and height of a page in pixels; a normalized coordinate is k/PageSize.
PageSize == 8

\* ------------------------------------------------- JavaScript numbers
Fin(n) == [t |-> "fin", v |-> n]
PInf == [t |-> "inf", v |-> 1]
NInf == [t |-> "inf", v |-> -1]
NaN == [t |-> "nan", v |-> 0]
IsFin(a) == a.t = "fin"

\* a < b on numbers; any comparison with NaN is false.
NumLt(a, b) ==
  IF a.t = "nan" \/ b.t = "nan" THEN FALSE
  ELSE IF a.t = "fin" /\ b.t = "fin" THEN a.v < b.v
  ELSE IF a.t = "inf" /\ b.t = "inf" THEN a.v < b.v
  ELSE IF a.t = "inf" THEN a.v < 0
  ELSE b.v > 0

NumNeg(a) == IF a.t = "nan" THEN NaN ELSE [t |-> a.t, v |-> -a.v]

\* a + b; Infinity + -Infinity is NaN.
NumAdd(a, b) ==
  IF a.t = "nan" \/ b.t = "nan" THEN NaN
  ELSE IF a.t = "fin" /\ b.t = "fin" THEN Fin(a.v + b.v)
  ELSE IF a.t = "inf" /\ b.t = "inf" THEN (IF a.v = b.v THEN a ELSE NaN)
  ELSE IF a.t = "inf" THEN a
  ELSE b

NumSub(a, b) == NumAdd(a, NumNeg(b))

\* floor(n / d) and ceil(n / d) for integers n, d with d # 0.
FloorDiv(n, d) == IF d > 0 THEN n \div d ELSE (-n) \div (-d)
CeilDiv(n, d) == -FloorDiv(-n, d)

\* Math.floor(n / s) and Math.ceil(n / s) for an integer n and a number s:
\* n / 0 is Infinity, -Infinity or NaN (0 / 0); n / +-Infinity is +-0.
NumFloorDiv(n, s) ==
  IF s.t = "nan" THEN NaN
  ELSE IF s.t = "inf" THEN Fin(0)
  ELSE IF s.v = 0 THEN (IF n > 0 THEN PInf ELSE IF n < 0 THEN NInf ELSE NaN)
  ELSE Fin(FloorDiv(n, s.v))

NumCeilDiv(n, s) ==
  IF s.t = "nan" THEN NaN
  ELSE IF s.t = "inf" THEN Fin(0)
  ELSE IF s.v = 0 THEN (IF n > 0 THEN PInf ELSE IF n < 0 THEN NInf ELSE NaN)
  ELSE Fin(CeilDiv(n, s.v))

\* ------------------------------------------------------------ strings
\* Array.prototype.sort with comparator (a, b) => key(a) - key(b), where
\* keys[i] is the key of s[i]: stable.
SortBy(s, keys) ==
  LET n == Len(s)
      rank(i) == Cardinality({j \in 1..n :
                    \/ keys[j] < keys[i]
                    \/ (keys[j] = keys[i] /\ j < i)}) + 1
  IN [p \in 1..n |-> s[CHOOSE i \in 1..n : rank(i) = p]]

RECURSIVE Join(_, _)
\* Array.prototype.join: the elements with sep between consecutive ones.
Join(strs, sep) ==
  IF Len(strs) = 0 THEN <<>>
  ELSE IF Len(strs) = 1 THEN strs[1]
  ELSE strs[1] \o sep \o Join(Tail(strs), sep)

RECURSIVE Flatten(_)
\* The concatenation of a sequence of strings.
Flatten(ss) == IF Len(ss) = 0 THEN <<>> ELSE ss[1] \o Flatten(Tail(ss))

RECURSIVE Repeat(_, _)
\* String.prototype.repeat for a count >= 0.
Repeat(c, n) == IF n <= 0 THEN <<>> ELSE <<c>> \o Repeat(c, n - 1)

IsSpace(c) == c \in {" ", "\n"}

RECURSIVE TrimEnd(_)
\* String.prototype.trimEnd
TrimEnd(s) ==
  IF Len(s) > 0 /\ IsSpace(s[Len(s)]) THEN TrimEnd(SubSeq(s, 1, Len(s) - 1))
  ELSE s

\* String.prototype.replace(/\n/g, ' ')
ReplaceNewlines(s) == [i \in 1..Len(s) |-> IF s[i] = "\n" THEN " " ELSE s[i]]

\* String.prototype.slice(start, end) for start, end >= 0.
Slice(s, start, end) ==
  LET a == IF start > Len(s) THEN Len(s) ELSE start
      b == IF end > Len(s) THEN Len(s) ELSE end
  IN IF a >= b THEN <<>> ELSE SubSeq(s, a + 1, b)

PageSeparator == <<"\n", "-", "-", "-", "\n">>
NoPagesMessage ==
  <<"N","o"," ","p","a","g","e","s"," ","f","o","u","n","d"," ","i","n"," ",
    "t","h","e"," ","d","o","c","u","m","e","n","t",".">>

\* ------------------------------------------------------ extractTextFromLayout
RECURSIVE SegmentsText(_, _)
SegmentsText(documentText, segs) ==
  IF Len(segs) = 0 THEN <<>>
  ELSE Slice(documentText, segs[1][1], segs[1][2])
         \o SegmentsText(documentText, Tail(segs))

extractTextFromLayout(documentText, token) ==
  IF ~token.hasAnchor THEN <<>> ELSE SegmentsText(documentText, token.segs)

\* ------------------------------------------------------------ processTokens
\* One iteration of the loop over page.lines; st is the loop's state.
TokenStep(document, page, token, st) ==
  IF st.threw THEN st
  ELSE IF ~token.hasLayout THEN st
  ELSE LET tokenText == extractTextFromLayout(document.text, token) IN
  IF tokenText = <<>> THEN st
  ELSE IF ~token.hasPoly \/ ~page.hasDim THEN st
  ELSE IF Len(token.verts) < 3 THEN [st EXCEPT !.threw = TRUE]
  ELSE
    LET x0 == (token.verts[1].x * page.width) \div PageSize
        y0 == (token.verts[1].y * page.height) \div PageSize
        x1 == (token.verts[3].x * page.width) \div PageSize
        y1 == (token.verts[3].y * page.height) \div PageSize
        wordWidth == x1 - x0
        wordHeight == y1 - y0
    IN [threw |-> FALSE,
        rowHeight |-> IF NumLt(Fin(wordHeight), st.rowHeight)
                      THEN Fin(wordHeight) ELSE st.rowHeight,
        left |-> IF NumLt(Fin(x0), st.left) THEN Fin(x0) ELSE st.left,
        right |-> IF NumLt(st.right, Fin(x1)) THEN Fin(x1) ELSE st.right,
        words |-> Append(st.words,
                    [word |-> tokenText, x0 |-> x0, originalYTop |-> y0,
                     originalYBottom |-> y1, wordWidth |-> wordWidth])]

RECURSIVE TokenLoop(_, _, _, _)
TokenLoop(document, page, i, st) ==
  IF i > Len(page.lines) THEN st
  ELSE TokenLoop(document, page, i + 1,
                 TokenStep(document, page, page.lines[i], st))

processTokens(document, page) ==
  IF ~page.present
  THEN [threw |-> FALSE, words |-> <<>>, left |-> Fin(0), right |-> Fin(0),
        rowHeight |-> Fin(0)]
  ELSE TokenLoop(document, page, 1,
         [threw |-> FALSE, words |-> <<>>, left |-> PInf, right |-> NInf,
          rowHeight |-> IF page.hasDim /\ page.height # 0
                        THEN Fin(page.height) ELSE PInf])

\* ------------------------------------------------ makeLinesWithIntersection
\* The overlap a word needs with a line's [top, bottom], in percent of its height.
OverlapThreshold == 65

Max2(a, b) == IF a > b THEN a ELSE b
Min2(a, b) == IF a < b THEN a ELSE b

\* Math.round(x) is floor(x + 1/2); here x = 100 * overlap / wordHeight.
OverlapPercentage(line, w) ==
  LET overlapTop == Max2(line.top, w.originalYTop)
      overlapBottom == Min2(line.bottom, w.originalYBottom)
      overlap == overlapBottom - overlapTop
      wordHeight == w.originalYBottom - w.originalYTop
  IN Max2(0, Min2(100, (200 * overlap + wordHeight) \div (2 * wordHeight)))

RECURSIVE FindLineSeventy(_, _, _)
\* FindLine with the threshold its comment names ("greater than or equal to
\* 70%") instead of the 65 it tests.
FindLineSeventy(lines, w, i) ==
  IF i > Len(lines) THEN 0
  ELSE IF w.originalYBottom - w.originalYTop <= 0
  THEN FindLineSeventy(lines, w, i + 1)
  ELSE IF OverlapPercentage(lines[i], w) >= 70 THEN i
  ELSE FindLineSeventy(lines, w, i + 1)

RECURSIVE FindLine(_, _, _)
\* The inner loop: the index of the first line, from i on, that the word
\* overlaps enough; 0 is foundLine = null.
FindLine(lines, w, i) ==
  IF i > Len(lines) THEN 0
  ELSE IF w.originalYBottom - w.originalYTop <= 0 THEN FindLine(lines, w, i + 1)
  ELSE IF OverlapPercentage(lines[i], w) >= OverlapThreshold THEN i
  ELSE FindLine(lines, w, i + 1)

\* The body of the loop over the sorted words: join the found line and widen
\* it, or start a new line.
PlaceWord(lines, w) ==
  LET foundLine == FindLine(lines, w, 1) IN
  IF foundLine # 0
  THEN [lines EXCEPT ![foundLine] =
          [words |-> Append(@.words, w),
           top |-> IF w.originalYTop < @.top THEN w.originalYTop ELSE @.top,
           bottom |-> IF w.originalYBottom > @.bottom
                      THEN w.originalYBottom ELSE @.bottom]]
  ELSE Append(lines, [words |-> <<w>>, top |-> w.originalYTop,
                      bottom |-> w.originalYBottom])

RECURSIVE ClusterLoop(_, _, _)
ClusterLoop(sorted, i, lines) ==
  IF i > Len(sorted) THEN lines
  ELSE ClusterLoop(sorted, i + 1, PlaceWord(lines, sorted[i]))

\* The keys of the three comparators.
WordYTop(ws) == [k \in 1..Len(ws) |-> ws[k].originalYTop]
WordX0(ws) == [k \in 1..Len(ws) |-> ws[k].x0]
LineTop(lines) == [k \in 1..Len(lines) |-> lines[k].top]

\* words.sort(...) sorts the caller's array in place.
SortWordsByTop(ws) == SortBy(ws, WordYTop(ws))

\* FinalizeLines without the sort of each line's words.
FinalizeLinesWordsAsPushed(lines) == SortBy(lines, LineTop(lines))

\* The post-pass: lines by top, then each line's words by x0.
FinalizeLines(lines) ==
  LET byTop == SortBy(lines, LineTop(lines))
  IN [i \in 1..Len(byTop) |->
        [byTop[i] EXCEPT !.words = SortBy(@, WordX0(@))]]

makeLinesWithIntersection(ws) ==
  FinalizeLines(ClusterLoop(SortWordsByTop(ws), 1, <<>>))

\* ------------------------------------------------------------- computeSlots
RECURSIVE SumSeq(_)
SumSeq(s) == IF Len(s) = 0 THEN 0 ELSE s[1] + SumSeq(Tail(s))

\* The median of the sorted widths, in half pixels.
Median2(widths) ==
  LET mid == Len(widths) \div 2
  IN IF Len(widths) % 2 = 0 /\ mid > 0
     THEN widths[mid] + widths[mid + 1]
     ELSE 2 * widths[mid + 1]

\* IsSignificant without the test: every line counts.
IsSignificantAlways(lineSum, usedWidth) == TRUE

\* lineSum / usedWidth >= 0.3
IsSignificant(lineSum, usedWidth) ==
  IF usedWidth.t = "nan" THEN FALSE
  ELSE IF usedWidth.t = "inf" THEN FALSE
  ELSE IF usedWidth.v > 0 THEN 10 * lineSum >= 3 * usedWidth.v
  ELSE IF usedWidth.v < 0 THEN 10 * lineSum <= 3 * usedWidth.v
  ELSE lineSum > 0

\* usedWidth in half pixels, as globalSlot is.
Twice(a) == IF IsFin(a) THEN Fin(2 * a.v) ELSE a

\* One call of the forEach callback; st = [globalSlot, lineSlots].
SlotStep(line, usedWidth, st) ==
  IF Len(line.words) < 1
  THEN [st EXCEPT !.lineSlots = Append(@, <<2, 2, 2>>)]
  ELSE
    LET pushed == [k \in 1..Len(line.words) |-> line.words[k].wordWidth]
        widths == SortBy(pushed, pushed)
        minW == widths[1]
        maxW == widths[Len(widths)]
        median == Median2(widths)
        lineSum == SumSeq(widths)
    IN [globalSlot |-> IF IsSignificant(lineSum, usedWidth)
                          /\ NumLt(Fin(median), st.globalSlot)
                       THEN Fin(median) ELSE st.globalSlot,
        lineSlots |-> Append(st.lineSlots, <<2 * minW, median, 2 * maxW>>)]

RECURSIVE SlotLoop(_, _, _, _)
SlotLoop(lines, i, usedWidth, st) ==
  IF i > Len(lines) THEN st
  ELSE SlotLoop(lines, i + 1, usedWidth, SlotStep(lines[i], usedWidth, st))

computeSlots(lines, left, right) ==
  LET usedWidth == NumSub(right, left)
  IN SlotLoop(lines, 1, usedWidth,
              [globalSlot |-> Twice(usedWidth), lineSlots |-> <<>>])

\* ----------------------------------------------------- renderLinesWithSlots
\* verticalGap > 1.5 * rowHeight
GapExceeds(verticalGap, rowHeight) ==
  IF rowHeight.t = "nan" THEN FALSE
  ELSE IF rowHeight.t = "inf" THEN rowHeight.v < 0
  ELSE 2 * verticalGap > 3 * rowHeight.v

\* BlankBefore without the test for the first line: the gap to -Infinity is
\* Infinity.
BlankBeforeAnyLine(line, lastLineBottom, rowHeight) ==
  IF lastLineBottom = NInf
     \/ GapExceeds(line.top - lastLineBottom.v, rowHeight)
  THEN <<<<>>>> ELSE <<>>

\* The blank line pushed before a line's text, if any.
BlankBefore(line, lastLineBottom, rowHeight) ==
  IF lastLineBottom # NInf
     /\ GapExceeds(line.top - lastLineBottom.v, rowHeight)
  THEN <<<<>>>> ELSE <<>>

\* spaceCount after "if (spaceCount < 1) spaceCount = 1".
SpaceCount(slotIndex, lastPrintedSlotIndex) ==
  LET spaceCount == NumSub(slotIndex, lastPrintedSlotIndex)
  IN IF NumLt(spaceCount, Fin(1)) THEN Fin(1) ELSE spaceCount

\* One iteration of the loop over a line's words; st = [threw, text,
\* lastPrintedSlotIndex].  ' '.repeat(Infinity) throws a RangeError and
\* ' '.repeat(NaN) is the empty string.
WordStep(w, left, slot, st) ==
  IF st.threw THEN st
  ELSE
    LET offset == w.x0 - left.v
        slotIndex == NumFloorDiv(2 * offset, slot)
        spaceCount == SpaceCount(slotIndex, st.lastPrintedSlotIndex)
        wordSlotSpan == NumCeilDiv(2 * w.wordWidth, slot)
    IN IF spaceCount = PInf THEN [st EXCEPT !.threw = TRUE]
       ELSE [threw |-> FALSE,
             text |-> st.text
                        \o Repeat(" ", IF IsFin(spaceCount) THEN spaceCount.v ELSE 0)
                        \o ReplaceNewlines(w.word),
             lastPrintedSlotIndex |-> NumAdd(slotIndex, wordSlotSpan)]

RECURSIVE WordLoop(_, _, _, _, _)
WordLoop(ws, i, left, slot, st) ==
  IF i > Len(ws) THEN st
  ELSE WordLoop(ws, i + 1, left, slot, WordStep(ws[i], left, slot, st))

\* One call of the forEach callback; st = [threw, outputLines, lastLineBottom].
LineStep(line, left, globalSlot, rowHeight, st) ==
  IF st.threw THEN st
  ELSE
    LET ws == SortBy(line.words, WordX0(line.words))
        r == WordLoop(ws, 1, left, globalSlot,
                      [threw |-> FALSE, text |-> <<>>,
                       lastPrintedSlotIndex |-> Fin(0)])
    IN IF r.threw THEN [st EXCEPT !.threw = TRUE]
       ELSE [threw |-> FALSE,
             outputLines |-> st.outputLines
                               \o BlankBefore(line, st.lastLineBottom, rowHeight)
                               \o <<TrimEnd(r.text)>>,
             lastLineBottom |-> Fin(line.bottom)]

RECURSIVE LineLoop(_, _, _, _, _, _)
LineLoop(lines, i, left, globalSlot, rowHeight, st) ==
  IF i > Len(lines) THEN st
  ELSE LineLoop(lines, i + 1, left, globalSlot, rowHeight,
                LineStep(lines[i], left, globalSlot, rowHeight, st))

renderLinesWithSlots(lines, left, globalSlot, rowHeight) ==
  LineLoop(lines, 1, left, globalSlot, rowHeight,
           [threw |-> FALSE, outputLines |-> <<>>, lastLineBottom |-> NInf])

\* -------------------------------------------------------------- processJSON
\* !document || !document.pages || document.pages.length === 0
HasNoPages(document) ==
  ~document.present \/ ~document.hasPages \/ Len(document.pages) = 0

\* spacedLines.join('\n')
JoinLines(spacedLines) == Join(spacedLines, <<"\n">>)

\* JoinPages with the separator after every page, the last one too.
JoinPagesTrailing(outputs) ==
  Flatten([i \in 1..Len(outputs) |-> outputs[i] \o PageSeparator])

\* The page outputs joined by the page separator.
JoinPages(outputs) == Join(outputs, PageSeparator)

\* ---------------------------------------------------------------- documents
\* The text buffer every document of the model shares.
DocumentText == <<"a", "b", "c", "d", "e", "\n", "f">>

Vertices(x0, y0, x1, y1) ==
  <<[x |-> x0, y |-> y0], [x |-> x1, y |-> y0],
    [x |-> x1, y |-> y1], [x |-> x0, y |-> y1]>>

\* A well-formed token whose text is DocumentText[start + 1 .. end].
Token(start, end, x0, y0, x1, y1) ==
  [hasLayout |-> TRUE, hasAnchor |-> TRUE, segs |-> <<<<start, end>>>>,
   hasPoly |-> TRUE, verts |-> Vertices(x0, y0, x1, y1)]

Page(tokens) ==
  [present |-> TRUE, hasDim |-> TRUE, width |-> PageSize, height |-> PageSize,
   lines |-> tokens]

Document(pages) ==
  [present |-> TRUE, hasPages |-> TRUE, text |-> DocumentText, pages |-> pages]

\* The sequences over S of length 0..n.
SeqsUpTo(S, n) == UNION {[1..k -> S] : k \in 0..n}

\* y intervals [y0, y1] on the grid, of height >= 0.
YBoxes == {b \in (0..MaxY) \X (0..MaxY) : b[1] <= b[2]}

\* One page whose words vary vertically.  Token i is the i-th letter; the
\* tokens come in right-to-left order, one pixel wide.
VerticalDoc(ys) ==
  Document(<<Page([i \in 1..Len(ys) |->
                    Token(i - 1, i, Len(ys) - i, ys[i][1],
                          Len(ys) - i + 1, ys[i][2])])>>)

\* One page whose words vary in x0 and x1: a word starts at the left or the
\* right end and ends anywhere (widths of any sign).  The first `low` tokens
\* are on a lower row, the others on the top row, three pixels above.
XBoxes == {0, MaxX} \X (0..MaxX)

HorizontalDoc(xs, low) ==
  Document(<<Page([i \in 1..Len(xs) |->
                    Token(i - 1, i, xs[i][1], IF i <= low THEN 3 ELSE 0,
                          xs[i][2], IF i <= low THEN 4 ELSE 1)])>>)

\* Pages that vary what a token or a page lacks.
NoLayout == [Token(0, 1, 0, 0, 1, 1) EXCEPT !.hasLayout = FALSE]
NoAnchor == [Token(0, 1, 0, 0, 1, 1) EXCEPT !.hasAnchor = FALSE]
NoSegments == [Token(0, 1, 0, 0, 1, 1) EXCEPT !.segs = <<>>]
EmptyText == Token(2, 2, 0, 0, 1, 1)
NoPoly == [Token(0, 1, 0, 0, 1, 1) EXCEPT !.hasPoly = FALSE]
TwoVertices == [Token(0, 1, 0, 0, 1, 1) EXCEPT !.verts = SubSeq(@, 1, 2)]
GoodB == Token(1, 2, 0, 0, 1, 1)
GoodC == Token(2, 3, 2, 0, 3, 1)
TwoLines == Token(4, 7, 0, 2, 2, 3)
ThinB == Token(1, 2, 1, 0, 1, 1)
ThinC == Token(2, 3, 1, 0, 1, 1)
WideD == Token(3, 4, 1, 0, 3, 1)
BelowA == Token(0, 1, 0, 2, 1, 3)

ShapePages ==
  { [Page(<<>>) EXCEPT !.present = FALSE],
    Page(<<>>),
    [Page(<<GoodB>>) EXCEPT !.hasDim = FALSE],
    [Page(<<GoodB, GoodC>>) EXCEPT !.width = 0, !.height = 0],
    Page(<<NoLayout>>),
    Page(<<NoAnchor, GoodB>>),
    Page(<<NoSegments>>),
    Page(<<EmptyText, GoodC>>),
    Page(<<GoodB, NoPoly>>),
    Page(<<GoodB, TwoVertices>>),
    Page(<<GoodB, GoodC>>),
    Page(<<GoodC, TwoLines>>),
    Page(<<ThinB, ThinC, WideD, BelowA>>) }

ShapeDocs ==
  { [Document(<<>>) EXCEPT !.present = FALSE],
    [Document(<<>>) EXCEPT !.hasPages = FALSE] }
  \cup {Document(ps) : ps \in SeqsUpTo(ShapePages, MaxPages)}

\* ------------------------------------------------------------------- state
VARIABLES
  document,     \* processJSON's argument
  pc,           \* where processJSON is
  pageIndex,    \* the page the map callback is at
  words, left, right, rowHeight,   \* what processTokens returned
  lines,        \* what makeLinesWithIntersection returned
  globalSlot, lineSlots,           \* what computeSlots returned
  spacedLines,  \* what renderLinesWithSlots returned
  outputs,      \* the map's results so far
  result        \* processJSON's return value

vars == <<document, pc, pageIndex, words, left, right, rowHeight, lines,
          globalSlot, lineSlots, spacedLines, outputs, result>>

pageVars == <<words, left, right, rowHeight, lines, globalSlot, lineSlots,
              spacedLines>>

Init ==
  /\ \/ \E ys \in SeqsUpTo(YBoxes, MaxTokens) : document = VerticalDoc(ys)
     \/ \E xs \in SeqsUpTo(XBoxes, MaxTokens) :
          \E low \in 0..Len(xs) : document = HorizontalDoc(xs, low)
     \/ document \in ShapeDocs
  /\ pc = "start"
  /\ pageIndex = 1
  /\ words = <<>>
  /\ left = Fin(0)
  /\ right = Fin(0)
  /\ rowHeight = Fin(0)
  /\ lines = <<>>
  /\ globalSlot = Fin(0)
  /\ lineSlots = <<>>
  /\ spacedLines = <<>>
  /\ outputs = <<>>
  /\ result = <<>>

\* The guard of processJSON: no pages.
ReturnNoPages ==
  /\ pc = "start"
  /\ HasNoPages(document)
  /\ result' = NoPagesMessage
  /\ pc' = "done"
  /\ UNCHANGED <<document, pageIndex, pageVars, outputs>>

\* The guard passed: the map starts at the first page.
StartPages ==
  /\ pc = "start"
  /\ ~HasNoPages(document)
  /\ pc' = "tokens"
  /\ UNCHANGED <<document, pageIndex, pageVars, outputs, result>>

\* processTokens returns.
ProcessTokensReturns ==
  /\ pc = "tokens"
  /\ LET r == processTokens(document, document.pages[pageIndex]) IN
       /\ ~r.threw
       /\ words' = r.words
       /\ left' = r.left
       /\ right' = r.right
       /\ rowHeight' = r.rowHeight
  /\ pc' = "lines"
  /\ UNCHANGED <<document, pageIndex, lines, globalSlot, lineSlots,
                 spacedLines, outputs, result>>

\* processTokens reads a vertex that is not there: a TypeError leaves
\* processJSON.
ProcessTokensThrows ==
  /\ pc = "tokens"
  /\ processTokens(document, document.pages[pageIndex]).threw
  /\ pc' = "threw"
  /\ UNCHANGED <<document, pageIndex, pageVars, outputs, result>>

\* makeLinesWithIntersection; it sorts the words array it is given.
MakeLines ==
  /\ pc = "lines"
  /\ lines' = makeLinesWithIntersection(words)
  /\ words' = SortWordsByTop(words)
  /\ pc' = "slots"
  /\ UNCHANGED <<document, pageIndex, left, right, rowHeight, globalSlot,
                 lineSlots, spacedLines, outputs, result>>

ComputeSlots ==
  /\ pc = "slots"
  /\ LET r == computeSlots(lines, left, right) IN
       /\ globalSlot' = r.globalSlot
       /\ lineSlots' = r.lineSlots
  /\ pc' = "render"
  /\ UNCHANGED <<document, pageIndex, words, left, right, rowHeight, lines,
                 spacedLines, outputs, result>>

RenderReturns ==
  /\ pc = "render"
  /\ LET r == renderLinesWithSlots(lines, left, globalSlot, rowHeight) IN
       /\ ~r.threw
       /\ spacedLines' = r.outputLines
  /\ pc' = "join"
  /\ UNCHANGED <<document, pageIndex, words, left, right, rowHeight, lines,
                 globalSlot, lineSlots, outputs, result>>

\* ' '.repeat(Infinity): a RangeError leaves processJSON.
RenderThrows ==
  /\ pc = "render"
  /\ renderLinesWithSlots(lines, left, globalSlot, rowHeight).threw
  /\ pc' = "threw"
  /\ UNCHANGED <<document, pageIndex, pageVars, outputs, result>>

\* The map callback returns the page's text; the map goes to the next page.
PageDone ==
  /\ pc = "join"
  /\ outputs' = Append(outputs, JoinLines(spacedLines))
  /\ IF pageIndex < Len(document.pages)
     THEN pageIndex' = pageIndex + 1 /\ pc' = "tokens"
     ELSE pageIndex' = pageIndex /\ pc' = "joinPages"
  /\ UNCHANGED <<document, pageVars, result>>

\* .join('\n---\n') and the return.
ReturnJoined ==
  /\ pc = "joinPages"
  /\ result' = JoinPages(outputs)
  /\ pc' = "done"
  /\ UNCHANGED <<document, pageIndex, pageVars, outputs>>

Next ==
  \/ ReturnNoPages
  \/ StartPages
  \/ ProcessTokensReturns
  \/ ProcessTokensThrows
  \/ MakeLines
  \/ ComputeSlots
  \/ RenderReturns
  \/ RenderThrows
  \/ PageDone
  \/ ReturnJoined

Spec == Init /\ [][Next]_vars

\* ================================================================== claims
\* The page whose stage results the state holds.
CurrentPage == document.pages[pageIndex]
WordHeight(w) == w.originalYBottom - w.originalYTop
\* processTokens has returned for the current page.
TokensDone == pc \in {"lines", "slots", "render", "join"}
\* makeLinesWithIntersection has returned for the current page.
LinesDone == pc \in {"slots", "render", "join"}
\* computeSlots has returned for the current page.
SlotsDone == pc \in {"render", "join"}
\* renderLinesWithSlots has returned for the current page.
RenderDone == pc = "join"

\* C2: processJSON never raises, whatever the tokens of a page lack (layout,
\* text anchor, bounding polygon, vertices, page dimensions) and whatever the
\* sign of their widths and heights: it always returns a string.
C2_NeverRaises == pc # "threw"

\* C3: once computeSlots has returned for a page with at least one word of
\* positive width, globalSlot is strictly positive.
C3_GlobalSlotPositive ==
  (SlotsDone /\ \E k \in 1..Len(words) : words[k].wordWidth > 0)
    => NumLt(Fin(0), globalSlot)

\* C4: in every rendered line at least one space separates two consecutive
\* words: on a page whose words are single characters, a character that is
\* not a space is the first of its line or follows a space.
C4_SpaceBetweenWords ==
  (RenderDone /\ \A k \in 1..Len(words) : Len(words[k].word) = 1)
    => \A n \in 1..Len(spacedLines) :
         \A i \in 2..Len(spacedLines[n]) :
           ~IsSpace(spacedLines[n][i]) => IsSpace(spacedLines[n][i - 1])

\* C5: a page that yields zero words contributes a non-empty placeholder
\* line to the outputs that are joined (the state is the one right after the
\* page's output was appended).
C5_EmptyPagePlaceholder ==
  (pc \in {"tokens", "joinPages"} /\ Len(outputs) >= 1 /\ words = <<>>)
    => outputs[Len(outputs)] # <<>>

\* The page height processTokens seeds rowHeight with.
SeedRowHeight(page) ==
  IF page.hasDim /\ page.height # 0 THEN Fin(page.height) ELSE PInf

\* The least number of a non-empty set of numbers without NaN.
MinNum(S) == CHOOSE m \in S : \A x \in S : ~NumLt(x, m)

\* C6: rowHeight is the minimum of the strictly positive word heights and of
\* the page height that seeds it (so it is the page height when no word has a
\* positive height), and a word of zero height is put in no line.
C6_ZeroHeightExcluded ==
  /\ (TokensDone /\ CurrentPage.present) =>
       rowHeight = MinNum({SeedRowHeight(CurrentPage)}
                          \cup {Fin(WordHeight(words[k])) :
                                  k \in {j \in 1..Len(words) :
                                           WordHeight(words[j]) > 0}})
  /\ LinesDone =>
       \A n \in 1..Len(lines) : \A k \in 1..Len(lines[n].words) :
         WordHeight(lines[n].words[k]) # 0

\* ------------------------------------------------------------------- C7
IsSorted(keys) == \A i \in 1..Len(keys) - 1 : keys[i] <= keys[i + 1]

NotSpace(c) == ~IsSpace(c)
NotBlank(text) == text # <<>>

\* What a line's words, as ordered in the line, print apart from spaces.
LineLetters(line) ==
  SelectSeq(Flatten([k \in 1..Len(line.words) |-> line.words[k].word]),
            NotSpace)

\* C7: the lines makeLinesWithIntersection returns are in non-decreasing
\* order of top and the words of each line in non-decreasing order of x0;
\* the texts renderLinesWithSlots emits are those lines' words, line by line
\* and word by word in that order (blank lines apart).
C7_LinesAndWordsInOrder ==
  /\ LinesDone =>
       /\ IsSorted(LineTop(lines))
       /\ \A n \in 1..Len(lines) : IsSorted(WordX0(lines[n].words))
  /\ RenderDone =>
       LET texts == SelectSeq(spacedLines, NotBlank)
       IN /\ Len(texts) = Len(lines)
          /\ \A n \in 1..Len(lines) :
               SelectSeq(texts[n], NotSpace) = LineLetters(lines[n])

\* C7's case: two lines, one of two words that came in right-to-left order,
\* have been rendered.
C7_Witness ==
  /\ RenderDone
  /\ Len(lines) >= 2
  /\ lines[1].top < lines[2].top
  /\ \E n \in 1..Len(lines) :
       /\ Len(lines[n].words) >= 2
       /\ lines[n].words[1].x0 < lines[n].words[2].x0
       /\ \E i, j \in 1..Len(CurrentPage.lines) :
            /\ i < j
            /\ extractTextFromLayout(document.text, CurrentPage.lines[i])
                 = lines[n].words[2].word
            /\ extractTextFromLayout(document.text, CurrentPage.lines[j])
                 = lines[n].words[1].word

\* ------------------------------------------------------------------- C8
RECURSIVE TotalLen(_)
TotalLen(ss) == IF Len(ss) = 0 THEN 0 ELSE Len(ss[1]) + TotalLen(Tail(ss))

\* Where page i's output starts in the result, less one.
OutputOffset(i) ==
  TotalLen(SubSeq(outputs, 1, i - 1)) + (i - 1) * Len(PageSeparator)

\* C8: for a document that is absent, has no pages field or has zero pages,
\* processJSON does not raise and returns the "no pages found" message; for
\* a document of n >= 1 pages what it returns is the n page outputs, in page
\* order, with exactly one "\n---\n" between consecutive ones.
C8_NoPagesOrJoined ==
  /\ HasNoPages(document) =>
       /\ pc \in {"start", "done"}
       /\ pc = "done" => result = NoPagesMessage
  /\ (pc = "done" /\ ~HasNoPages(document)) =>
       LET n == Len(document.pages) IN
       /\ Len(outputs) = n
       /\ Len(result) = TotalLen(outputs) + (n - 1) * Len(PageSeparator)
       /\ \A i \in 1..n :
            SubSeq(result, OutputOffset(i) + 1,
                   OutputOffset(i) + Len(outputs[i])) = outputs[i]
       /\ \A i \in 1..n - 1 :
            SubSeq(result, OutputOffset(i) + Len(outputs[i]) + 1,
                   OutputOffset(i + 1)) = <<"\n", "-", "-", "-", "\n">>

\* C8's case: a document of two or more pages, the first with text, has been
\* joined.
C8_Witness ==
  /\ pc = "done"
  /\ Len(outputs) >= 2
  /\ outputs[1] # <<>>
  /\ outputs[2] # <<>>

\* ------------------------------------------------------------------- C9
\* line n's top is more than 1.5 * rowHeight below line n - 1's bottom.
GapBefore(n) ==
  /\ n >= 2
  /\ IsFin(rowHeight)
  /\ 2 * (lines[n].top - lines[n - 1].bottom) > 3 * rowHeight.v

\* Where line n's text is in the output: after the texts and the blank lines
\* before it.
OutputPosition(n) == n + Cardinality({j \in 2..n : GapBefore(j)})

\* C9: between two consecutive lines exactly one blank line is put out when
\* the second one's top is more than 1.5 * rowHeight below the first one's
\* bottom, and none otherwise; no blank line comes before the first line.
C9_BlankLineOnGap ==
  RenderDone =>
    /\ Len(spacedLines) = OutputPosition(Len(lines))
    /\ \A n \in 1..Len(lines) :
         /\ spacedLines[OutputPosition(n)] # <<>>
         /\ GapBefore(n) => spacedLines[OutputPosition(n) - 1] = <<>>

\* C9's case: two lines of positive height, the second more than 1.5 row
\* heights below the first, rendered with one blank line between them.
C9_Witness ==
  /\ RenderDone
  /\ Len(lines) = 2
  /\ NumLt(Fin(0), rowHeight)
  /\ GapBefore(2)
  /\ Len(spacedLines) = 3
  /\ spacedLines[2] = <<>>

\* ------------------------------------------------------------------ C10
LineWidths(line) == [k \in 1..Len(line.words) |-> line.words[k].wordWidth]

\* The value with at most `below` values under it and `above` over it.
Middle(ws, below, above) ==
  CHOOSE m \in {ws[i] : i \in 1..Len(ws)} :
    /\ Cardinality({i \in 1..Len(ws) : ws[i] < m}) <= below
    /\ Cardinality({i \in 1..Len(ws) : ws[i] > m}) <= above

\* The standard median, in half pixels: the middle value of an odd number of
\* values, the sum of the two middle ones (twice their average) of an even
\* number.
StandardMedian2(ws) ==
  LET n == Len(ws) IN
  IF n % 2 = 1 THEN 2 * Middle(ws, (n - 1) \div 2, (n - 1) \div 2)
  ELSE Middle(ws, n \div 2 - 1, n \div 2) + Middle(ws, n \div 2, n \div 2 - 1)

UsedWidth == NumSub(right, left)

\* The sum of the line's widths is at least 30% of usedWidth.
AtLeast30Percent(line) ==
  IsFin(UsedWidth) /\ 10 * SumSeq(LineWidths(line)) >= 3 * UsedWidth.v

\* The quotient of the sum of the line's widths by usedWidth is at least 0.3.
QuotientAtLeast30Percent(line) ==
  /\ IsFin(UsedWidth)
  /\ \/ UsedWidth.v > 0 /\ 10 * SumSeq(LineWidths(line)) >= 3 * UsedWidth.v
     \/ UsedWidth.v < 0 /\ 10 * SumSeq(LineWidths(line)) <= 3 * UsedWidth.v
     \/ UsedWidth.v = 0 /\ SumSeq(LineWidths(line)) > 0

\* globalSlot is the least of usedWidth and of the significant lines' medians.
SlotIsLeastMedian(significant) ==
  globalSlot =
    MinNum({Twice(UsedWidth)}
           \cup {Fin(StandardMedian2(LineWidths(lines[n]))) : n \in significant})

DistinctWords == \A j, k \in 1..Len(words) : words[j] = words[k] => j = k

\* The line that holds the k-th processed word.
LineOf(k) ==
  CHOOSE n \in 1..Len(lines) :
    \E i \in 1..Len(lines[n].words) : lines[n].words[i] = words[k]

\* The words of line n processed before the k-th.
EarlierMembers(n, k) == {j \in 1..k - 1 : LineOf(j) = n}

\* The first processed word of line n: the one that created it.
Creator(n) ==
  CHOOSE j \in 1..Len(words) :
    LineOf(j) = n /\ \A i \in 1..Len(words) : LineOf(i) = n => j <= i

\* Line n's [top, bottom] when the k-th word is processed.
IntervalAt(n, k) ==
  LET ms == EarlierMembers(n, k) IN
  [top |-> CHOOSE t \in {words[j].originalYTop : j \in ms} :
             \A j \in ms : t <= words[j].originalYTop,
   bottom |-> CHOOSE b \in {words[j].originalYBottom : j \in ms} :
                \A j \in ms : b >= words[j].originalYBottom]

WordInterval(w) == [top |-> w.originalYTop, bottom |-> w.originalYBottom]

Overlap(interval, w) ==
  Min2(interval.bottom, w.originalYBottom) - Max2(interval.top, w.originalYTop)

\* The overlap is at least 65% of the word's height.
Overlaps65(interval, w) ==
  WordHeight(w) > 0 /\ 100 * Overlap(interval, w) >= 65 * WordHeight(w)

\* The overlap, in percent of the word's height rounded to the nearest
\* integer, is at least 65: it is at least 64.5%.
OverlapsRounded65(interval, w) ==
  WordHeight(w) > 0 /\ 200 * Overlap(interval, w) >= 129 * WordHeight(w)

Candidates(k) ==
  {n \in 1..Len(lines) :
     /\ EarlierMembers(n, k) # {}
     /\ OverlapsRounded65(IntervalAt(n, k), words[k])}

====
